---- MODULE Spec2Model ----
(***************************************************************************)
(* Model of src/core/diffs.py: the semantic diff of two parsed YAML trees. *)
(*                                                                         *)
(* A Value is a record [t, scalar, items, elems]: t = "s" for a scalar     *)
(* (scalar a number, Null for Python's None), t = "m" for a dict (items a  *)
(* function from keys to Values), t = "l" for a list (elems a sequence of  *)
(* Values); the fields a shape does not use are empty.  Python indices are *)
(* 0-based and are kept 0-based in every index the model reports.          *)
(***************************************************************************)
EXTENDS Integers, Sequences, FiniteSets, TLC

\* ------------------------------------------------------------------------
\* Bounds of the input universe
\* ------------------------------------------------------------------------
MaxLen == 3

\* ------------------------------------------------------------------------
\* Value model
\* ------------------------------------------------------------------------
\* Python's None as a scalar value (d.get(k, None)); the other scalars are 1, 2, ...
Null == 0
\* Python's None inside an index tuple: (i, None) / (None, j)
None == -1

Keys == {"a", "b"}
KeyOrder == <<"a", "b">>

Scalar(n) == [t |-> "s", scalar |-> n, items |-> <<>>, elems |-> <<>>]
Dict(f) == [t |-> "m", scalar |-> Null, items |-> f, elems |-> <<>>]
List(s) == [t |-> "l", scalar |-> Null, items |-> <<>>, elems |-> s]

IsDict(x) == x.t = "m"
IsList(x) == x.t = "l"
IsComplex(x) == IsDict(x) \/ IsList(x)

\* len(l) and l[i] of a Python list
len(l) == Len(l.elems)
At(l, i) == l.elems[i + 1]
range(n) == 0 .. (n - 1)

\* d.get(k, None)
get(d, k) == IF k \in DOMAIN d.items THEN d.items[k] ELSE Scalar(Null)

\* ------------------------------------------------------------------------
\* _create_similarity_matrix
\* ------------------------------------------------------------------------
\* step 2: the lookup structures parsed from l2, each read through .get(key, [])
simple_values(l2, x) ==
    {i \in range(len(l2)) : ~IsComplex(At(l2, i)) /\ At(l2, i) = x}

key_value_pairs(l2, k, x) ==
    {i \in range(len(l2)) :
        /\ IsDict(At(l2, i))
        /\ k \in DOMAIN At(l2, i).items
        /\ ~IsComplex(At(l2, i).items[k])
        /\ At(l2, i).items[k] = x}

complex_keys(l2, k) ==
    {i \in range(len(l2)) :
        /\ IsDict(At(l2, i))
        /\ k \in DOMAIN At(l2, i).items
        /\ IsComplex(At(l2, i).items[k])}

\* the length bucket without its type test: len() also counts a dict's keys
list_lengths_any_sized(l2, n) ==
    {i \in range(len(l2)) :
        \/ IsList(At(l2, i)) /\ len(At(l2, i)) = n
        \/ IsDict(At(l2, i)) /\ Cardinality(DOMAIN At(l2, i).items) = n}

list_lengths(l2, n) ==
    {i \in range(len(l2)) : IsList(At(l2, i)) /\ len(At(l2, i)) = n}

\* step 3: how many times "similarity_matrix[i][l2_index] += 1" runs for the
\* element l1[i] and the index l2_index
Increments(l1, l2, i, l2_index) ==
    LET e == At(l1, i) IN
    IF IsDict(e)
    THEN Cardinality({k \in DOMAIN e.items :
            IF IsComplex(e.items[k])
            THEN l2_index \in complex_keys(l2, k)
            ELSE l2_index \in key_value_pairs(l2, k, e.items[k])})
    ELSE IF IsList(e)
    THEN (IF l2_index \in list_lengths(l2, len(e)) THEN 1 ELSE 0)
    ELSE (IF l2_index \in simple_values(l2, e) THEN 1 ELSE 0)

\* The matrix is allocated with len(l2) rows of len(l1) entries (line 32) and
\* written at [i][l2_index] with i an index of l1 and l2_index an index of l2:
\* a write outside the allocation raises IndexError.
MatrixWriteFails(l1, l2) ==
    \E i \in range(len(l1)), j \in range(len(l2)) :
        /\ Increments(l1, l2, i, j) > 0
        /\ (i >= len(l2) \/ j >= len(l1))

\* [raised, val]: val[r + 1][c + 1] is similarity_matrix[r][c]
_create_similarity_matrix(l1, l2) ==
    IF MatrixWriteFails(l1, l2)
    THEN [raised |-> TRUE, val |-> <<>>]
    ELSE [raised |-> FALSE,
          val |-> [r \in 1 .. len(l2) |-> [c \in 1 .. len(l1) |->
                    IF r <= len(l1) /\ c <= len(l2)
                    THEN Increments(l1, l2, r - 1, c - 1)
                    ELSE 0]]]

\* ------------------------------------------------------------------------
\* _sort_similarity_list, _sort_similarity_matrix
\* ------------------------------------------------------------------------
\* the "join the sorted halves" loop: h1's head is taken only when its score
\* is strictly greater, otherwise h2's head is taken
RECURSIVE Merge(_, _)
Merge(h1, h2) ==
    IF Len(h1) = 0 /\ Len(h2) = 0 THEN <<>>
    ELSE IF Len(h1) = 0 THEN <<Head(h2)>> \o Merge(h1, Tail(h2))
    ELSE IF Len(h2) = 0 THEN <<Head(h1)>> \o Merge(Tail(h1), h2)
    ELSE IF h1[1][1] > h2[1][1] THEN <<Head(h1)>> \o Merge(Tail(h1), h2)
    ELSE <<Head(h2)>> \o Merge(h1, Tail(h2))

RECURSIVE _sort_similarity_list(_)
_sort_similarity_list(sl) ==
    IF Len(sl) <= 1 THEN sl
    ELSE LET split_index == Len(sl) \div 2
             h1 == _sort_similarity_list(SubSeq(sl, 1, split_index))
             h2 == _sort_similarity_list(SubSeq(sl, split_index + 1, Len(sl)))
         IN  Merge(h1, h2)

\* the row-major list [(sm[r][c], r, c)]
RECURSIVE Flatten(_, _)
Flatten(sm, r) ==
    IF r >= Len(sm) THEN <<>>
    ELSE [c \in 1 .. Len(sm[r + 1]) |-> <<sm[r + 1][c], r, c - 1>>]
         \o Flatten(sm, r + 1)

_sort_similarity_matrix(sm) == _sort_similarity_list(Flatten(sm, 0))

\* ------------------------------------------------------------------------
\* Mismatch paths
\* ------------------------------------------------------------------------
\* A path element is a dict key (a str) or an index tuple (l1_index, l2_index)
KeySeg(k) == [seg |-> "key", key |-> k, l |-> None, r |-> None]
IdxSeg(i, j) == [seg |-> "idx", key |-> "", l |-> i, r |-> j]

\* the splice that also reports the matched element itself as a path
PrependWithParent(elem, paths) ==
    <<<<elem>>>> \o [n \in 1 .. Len(paths) |-> <<elem>> \o paths[n]]

\* [elem] + retvals for every retvals of a recursive call
Prepend(elem, paths) == [n \in 1 .. Len(paths) |-> <<elem>> \o paths[n]]

\* ------------------------------------------------------------------------
\* Iteration order of a Python set.  It follows the hashes of the members:
\* str hashes are salted per process (PYTHONHASHSEED), and the hash of a
\* tuple holding None follows hash(None), which is address-based before
\* CPython 3.12.  A run's order is one of the orders the process's seed
\* selects; the seed is fixed for the whole run, nested calls included.
\* ------------------------------------------------------------------------
Seeds == {0, 1}

Reverse(s) == [n \in 1 .. Len(s) |-> s[Len(s) + 1 - n]]

RECURSIVE Filter(_, _)
Filter(s, S) ==
    IF s = <<>> THEN <<>>
    ELSE (IF Head(s) \in S THEN <<Head(s)>> ELSE <<>>) \o Filter(Tail(s), S)

\* "for k in keys" over set(d1.keys()).union(set(d2.keys()))
IterKeys(S, seed) ==
    IF seed = 0 THEN Filter(KeyOrder, S) ELSE Filter(Reverse(KeyOrder), S)

PairLess(p, q) == p[1] < q[1] \/ (p[1] = q[1] /\ p[2] < q[2])

RECURSIVE SortPairs(_)
SortPairs(S) ==
    IF S = {} THEN <<>>
    ELSE LET m == CHOOSE p \in S : \A q \in S \ {p} : PairLess(p, q)
         IN  <<m>> \o SortPairs(S \ {m})

\* "for elem in mismatch_set"
IterPairs(S, seed) ==
    IF seed = 0 THEN SortPairs(S) ELSE Reverse(SortPairs(S))

\* ------------------------------------------------------------------------
\* list_diff, step 3 and step 4: labelling
\* ------------------------------------------------------------------------
NoLabels ==
    [seen_l1_indices |-> {}, mismatch_l1_indices |-> {},
     seen_l2_indices |-> {}, mismatch_l2_indices |-> {},
     mismatch_set |-> {}, to_recurse |-> <<>>,
     matched |-> <<>>, raised |-> FALSE]

\* one iteration of "for elem in similarity_list"; `matched` records the
\* entries that took case 1 (the code keeps only their two index sets)
LabelStep(st, elem, l1, l2) ==
    IF st.raised THEN st
    ELSE IF elem[1] > 0 /\ ~(elem[2] \in st.seen_l1_indices
                              \/ elem[3] \in st.seen_l2_indices)
    THEN LET seen == [st EXCEPT !.seen_l1_indices = @ \cup {elem[2]},
                                !.seen_l2_indices = @ \cup {elem[3]},
                                !.matched = Append(@, elem)]
         IN  \* l1[elem[1]] is read first; l2[elem[2]] only if l1's is a dict or a list
             IF elem[2] >= len(l1) THEN [seen EXCEPT !.raised = TRUE]
             ELSE IF ~IsComplex(At(l1, elem[2])) THEN seen
             ELSE IF elem[3] >= len(l2) THEN [seen EXCEPT !.raised = TRUE]
             ELSE IF \/ IsDict(At(l1, elem[2])) /\ IsDict(At(l2, elem[3]))
                     \/ IsList(At(l1, elem[2])) /\ IsList(At(l2, elem[3]))
             THEN [seen EXCEPT !.to_recurse = Append(@, <<elem[2], elem[3]>>)]
             ELSE seen
    ELSE IF elem[1] = 0
    THEN LET m1 == IF elem[2] \notin st.seen_l1_indices
                   THEN [st EXCEPT !.mismatch_set = @ \cup {<<elem[2], None>>},
                                   !.mismatch_l1_indices = @ \cup {elem[2]}]
                   ELSE st
         IN  IF elem[3] \notin st.seen_l2_indices
             THEN [m1 EXCEPT !.mismatch_set = @ \cup {<<None, elem[3]>>},
                             !.mismatch_l2_indices = @ \cup {elem[3]}]
             ELSE m1
    ELSE st

RECURSIVE LabelLoop(_, _, _, _, _)
LabelLoop(st, sl, n, l1, l2) ==
    IF n > Len(sl) THEN st
    ELSE LabelLoop(LabelStep(st, sl[n], l1, l2), sl, n + 1, l1, l2)

\* step 4: label straggler mis-matches
Stragglers(st, l1, l2) ==
    IF st.raised THEN st
    ELSE LET labelled_l1 == st.seen_l1_indices \cup st.mismatch_l1_indices
             labelled_l2 == st.seen_l2_indices \cup st.mismatch_l2_indices
         IN  [st EXCEPT !.mismatch_set = @
                 \cup {<<i, None>> : i \in range(len(l1)) \ labelled_l1}
                 \cup {<<None, i>> : i \in range(len(l2)) \ labelled_l2}]

Label(sl, l1, l2) ==
    Stragglers(LabelLoop(NoLabels, sl, 1, l1, l2), l1, l2)

\* ------------------------------------------------------------------------
\* list_diff step 5 and dict_diff.  A call's outcome is [raised, paths,
\* printed]: raised when an exception left the call (no list is returned),
\* printed when the 'index types do not match' branch ran.
\* ------------------------------------------------------------------------
Returned(paths) == [raised |-> FALSE, paths |-> paths, printed |-> FALSE]
Raised == [raised |-> TRUE, paths |-> <<>>, printed |-> FALSE]

\* "for retvals in tmp_non_match_list: acc.append([elem] + retvals)"
Splice(acc, elem, sub) ==
    IF acc.raised THEN acc
    ELSE IF sub.raised THEN [Raised EXCEPT !.printed = acc.printed \/ sub.printed]
    ELSE [raised |-> FALSE,
          paths |-> acc.paths \o Prepend(elem, sub.paths),
          printed |-> acc.printed \/ sub.printed]

\* the leaf test of dict_diff's first loop, and the keys it defers
DictKeys(d1, d2, seed) ==
    Filter(IterKeys(DOMAIN d1.items \cup DOMAIN d2.items, seed),
           {k \in Keys : IsDict(get(d1, k)) /\ IsDict(get(d2, k))})

ListKeys(d1, d2, seed) ==
    Filter(IterKeys(DOMAIN d1.items \cup DOMAIN d2.items, seed),
           {k \in Keys : /\ ~(IsDict(get(d1, k)) /\ IsDict(get(d2, k)))
                         /\ IsList(get(d1, k)) /\ IsList(get(d2, k))})

\* the leaf test run over d1's keys only, without the union with d2's
LeafKeysOfLeft(d1, d2, seed) ==
    Filter(IterKeys(DOMAIN d1.items, seed),
           {k \in Keys : /\ ~(IsDict(get(d1, k)) /\ IsDict(get(d2, k)))
                         /\ ~(IsList(get(d1, k)) /\ IsList(get(d2, k)))
                         /\ get(d1, k) # get(d2, k)})

LeafKeys(d1, d2, seed) ==
    Filter(IterKeys(DOMAIN d1.items \cup DOMAIN d2.items, seed),
           {k \in Keys : /\ ~(IsDict(get(d1, k)) /\ IsDict(get(d2, k)))
                         /\ ~(IsList(get(d1, k)) /\ IsList(get(d2, k)))
                         /\ get(d1, k) # get(d2, k)})

RECURSIVE list_diff(_, _, _), dict_diff(_, _, _)
RECURSIVE RecurseLoop(_, _, _, _, _, _), DictLoop(_, _, _, _, _, _), ListLoop(_, _, _, _, _, _)

\* "for elem in to_recurse"
RecurseLoop(acc, to_recurse, n, l1, l2, seed) ==
    IF n > Len(to_recurse) \/ acc.raised THEN acc
    ELSE LET elem == to_recurse[n]
             e1 == At(l1, elem[1])
             e2 == At(l2, elem[2])
             next ==
                IF IsDict(e1) /\ IsDict(e2)
                THEN Splice(acc, IdxSeg(elem[1], elem[2]), dict_diff(e1, e2, seed))
                ELSE IF IsList(e1) /\ IsList(e2)
                THEN Splice(acc, IdxSeg(elem[1], elem[2]), list_diff(e1, e2, seed))
                ELSE [acc EXCEPT !.printed = TRUE]
         IN  RecurseLoop(next, to_recurse, n + 1, l1, l2, seed)

\* step 5 of list_diff
Recurse(st, l1, l2, seed) ==
    LET order == IterPairs(st.mismatch_set, seed)
        mismatches == [n \in 1 .. Len(order) |-> <<IdxSeg(order[n][1], order[n][2])>>]
    IN  RecurseLoop(Returned(mismatches), st.to_recurse, 1, l1, l2, seed)

list_diff(l1, l2, seed) ==
    LET sm == _create_similarity_matrix(l1, l2) IN
    IF sm.raised THEN Raised
    ELSE LET sl == _sort_similarity_matrix(sm.val)
             st == Label(sl, l1, l2)
         IN  IF st.raised THEN Raised ELSE Recurse(st, l1, l2, seed)

\* "for k in dict_keys_to_recurse"
DictLoop(acc, keys, n, d1, d2, seed) ==
    IF n > Len(keys) \/ acc.raised THEN acc
    ELSE DictLoop(Splice(acc, KeySeg(keys[n]),
                         dict_diff(d1.items[keys[n]], d2.items[keys[n]], seed)),
                  keys, n + 1, d1, d2, seed)

\* "for k in list_keys_to_recurse"
ListLoop(acc, keys, n, d1, d2, seed) ==
    IF n > Len(keys) \/ acc.raised THEN acc
    ELSE ListLoop(Splice(acc, KeySeg(keys[n]),
                         list_diff(d1.items[keys[n]], d2.items[keys[n]], seed)),
                  keys, n + 1, d1, d2, seed)

\* return_values after the first loop of dict_diff
LeafPaths(d1, d2, seed) ==
    LET ks == LeafKeys(d1, d2, seed)
    IN  [n \in 1 .. Len(ks) |-> <<KeySeg(ks[n])>>]

\* the two recursion loops of dict_diff
DictRecurse(rv, dks, lks, d1, d2, seed) ==
    ListLoop(DictLoop(Returned(rv), dks, 1, d1, d2, seed), lks, 1, d1, d2, seed)

dict_diff(d1, d2, seed) ==
    DictRecurse(LeafPaths(d1, d2, seed), DictKeys(d1, d2, seed),
                ListKeys(d1, d2, seed), d1, d2, seed)

\* ------------------------------------------------------------------------
\* Input universe
\* ------------------------------------------------------------------------
ScalarValues == {Scalar(Null), Scalar(1), Scalar(2)}

\* every list of at most MaxLen elements drawn from one alphabet
ListsOver(A) == {List(s) : s \in UNION {[1 .. n -> A] : n \in 0 .. MaxLen}}

Alphabets ==
    { ScalarValues,
      {Dict(<<>>), Dict("a" :> Scalar(1)), Dict(("a" :> Scalar(1)) @@ ("b" :> Scalar(2)))},
      {Scalar(1), Dict("a" :> Scalar(1)), List(<<Scalar(1)>>)},
      {List(<<>>), List(<<Scalar(1)>>)},
      {List(<<Scalar(1)>>), List(<<Scalar(2)>>)},
      {Dict("a" :> List(<<Scalar(1)>>)),
       Dict(("a" :> List(<<Scalar(2)>>)) @@ ("b" :> Scalar(1)))},
      {Dict("a" :> List(<<Scalar(1)>>)), Dict("a" :> Dict("b" :> Scalar(1)))} }

ListPairs == UNION {ListsOver(A) \X ListsOver(A) : A \in Alphabets}

\* the values a root dict maps its keys to
DictValues ==
    ScalarValues \cup
    { Dict(<<>>), Dict("a" :> Scalar(1)),
      List(<<>>), List(<<Scalar(1)>>), List(<<Scalar(1), Scalar(1)>>),
      List(<<Dict("a" :> Scalar(1))>>) }

Dicts == {Dict(f) : f \in UNION {[K -> DictValues] : K \in SUBSET Keys}}

DictPairs == Dicts \X Dicts

\* ------------------------------------------------------------------------
\* State: one top-level call list_diff(a, b) or dict_diff(a, b)
\* ------------------------------------------------------------------------
VARIABLES
    a, b,                   \* the two documents
    seed,                   \* the process's hash seed
    pc,                     \* where the call is
    similarity_matrix,      \* list_diff step 1
    similarity_list,        \* list_diff step 2
    labels,                 \* list_diff steps 3 and 4
    return_values,          \* dict_diff after its first loop
    dict_keys_to_recurse,
    list_keys_to_recurse,
    out,                    \* the call's outcome
    prev                    \* the outcome of an earlier run on the same documents

vars == <<a, b, seed, pc, similarity_matrix, similarity_list, labels,
          return_values, dict_keys_to_recurse, list_keys_to_recurse, out, prev>>

NoRun == [ran |-> FALSE, out |-> Returned(<<>>)]

Fresh ==
    /\ pc = "start"
    /\ similarity_matrix = <<>>
    /\ similarity_list = <<>>
    /\ labels = NoLabels
    /\ return_values = <<>>
    /\ dict_keys_to_recurse = <<>>
    /\ list_keys_to_recurse = <<>>
    /\ out = Returned(<<>>)

Init ==
    /\ \E p \in ListPairs \cup DictPairs : a = p[1] /\ b = p[2]
    /\ seed \in Seeds
    /\ prev = NoRun
    /\ Fresh

\* The "de-alloc" assignments of list_diff (lines 149, 192-197) only drop
\* references the code no longer reads; the variables below keep the values.

\* list_diff step 1 (line 145)
CreateSimilarityMatrix ==
    /\ pc = "start"
    /\ IsList(a) /\ IsList(b)
    /\ LET m == _create_similarity_matrix(a, b) IN
        IF m.raised
        THEN /\ pc' = "raised"
             /\ out' = Raised
             /\ UNCHANGED similarity_matrix
        ELSE /\ pc' = "scored"
             /\ similarity_matrix' = m.val
             /\ UNCHANGED out
    /\ UNCHANGED <<a, b, seed, similarity_list, labels, return_values,
                   dict_keys_to_recurse, list_keys_to_recurse, prev>>

\* list_diff step 2 (line 148)
SortSimilarityMatrix ==
    /\ pc = "scored"
    /\ similarity_list' = _sort_similarity_matrix(similarity_matrix)
    /\ pc' = "ranked"
    /\ UNCHANGED <<a, b, seed, similarity_matrix, labels, return_values,
                   dict_keys_to_recurse, list_keys_to_recurse, out, prev>>

\* list_diff steps 3 and 4 (lines 152-188)
LabelIndices ==
    /\ pc = "ranked"
    /\ labels' = Label(similarity_list, a, b)
    /\ IF labels'.raised
       THEN pc' = "raised" /\ out' = Raised
       ELSE pc' = "labelled" /\ UNCHANGED out
    /\ UNCHANGED <<a, b, seed, similarity_matrix, similarity_list, return_values,
                   dict_keys_to_recurse, list_keys_to_recurse, prev>>

\* list_diff step 5 (lines 199-214)
RunRecursions ==
    /\ pc = "labelled"
    /\ out' = Recurse(labels, a, b, seed)
    /\ pc' = IF out'.raised THEN "raised" ELSE "done"
    /\ UNCHANGED <<a, b, seed, similarity_matrix, similarity_list, labels,
                   return_values, dict_keys_to_recurse, list_keys_to_recurse, prev>>

\* dict_diff's first loop (lines 230-240)
ClassifyKeys ==
    /\ pc = "start"
    /\ IsDict(a) /\ IsDict(b)
    /\ return_values' = LeafPaths(a, b, seed)
    /\ dict_keys_to_recurse' = DictKeys(a, b, seed)
    /\ list_keys_to_recurse' = ListKeys(a, b, seed)
    /\ pc' = "classified"
    /\ UNCHANGED <<a, b, seed, similarity_matrix, similarity_list, labels, out, prev>>

\* dict_diff's two recursion loops (lines 242-251)
RecurseKeys ==
    /\ pc = "classified"
    /\ out' = DictRecurse(return_values, dict_keys_to_recurse,
                          list_keys_to_recurse, a, b, seed)
    /\ pc' = IF out'.raised THEN "raised" ELSE "done"
    /\ UNCHANGED <<a, b, seed, similarity_matrix, similarity_list, labels,
                   return_values, dict_keys_to_recurse, list_keys_to_recurse, prev>>

\* the same documents are diffed again by a new process
Rerun ==
    /\ pc \in {"done", "raised"}
    /\ ~prev.ran
    /\ prev' = [ran |-> TRUE, out |-> out]
    /\ seed' \in Seeds
    /\ pc' = "start"
    /\ similarity_matrix' = <<>>
    /\ similarity_list' = <<>>
    /\ labels' = NoLabels
    /\ return_values' = <<>>
    /\ dict_keys_to_recurse' = <<>>
    /\ list_keys_to_recurse' = <<>>
    /\ out' = Returned(<<>>)
    /\ UNCHANGED <<a, b>>

Next ==
    \/ CreateSimilarityMatrix
    \/ SortSimilarityMatrix
    \/ LabelIndices
    \/ RunRecursions
    \/ ClassifyKeys
    \/ RecurseKeys

Spec == Init /\ [][Next]_vars

NextRuns == Next \/ Rerun

SpecRuns == Init /\ [][NextRuns]_vars

\* ------------------------------------------------------------------------
\* Properties
\* ------------------------------------------------------------------------
Terminal == pc \in {"done", "raised"}
ListCall == IsList(a) /\ IsList(b)
DictCall == IsDict(a) /\ IsDict(b)
OutPaths == {out.paths[n] : n \in 1 .. Len(out.paths)}
ReturnedEmpty == pc = "done" /\ out.paths = <<>>

\* the top-level entry point on arbitrary same-shape roots
Diff(x, y, s) == IF IsList(x) THEN list_diff(x, y, s) ELSE dict_diff(x, y, s)

Count(l, x) == Cardinality({i \in range(len(l)) : At(l, i) = x})
Max(x, y) == IF x >= y THEN x ELSE y
AllScalars(l) == \A i \in range(len(l)) : ~IsComplex(At(l, i))

\* C1: Reflexivity.  Diffing a tree against a structurally identical copy
\* returns the empty mismatch list.
Reflexivity == (Terminal /\ a = b) => ReturnedEmpty

\* C2: for two lists of scalars of any lengths, list_diff returns normally
\* and, for every scalar value v, exactly max(0, countL(v) - countR(v)) left
\* positions holding v are reported (i, None) and exactly
\* max(0, countR(v) - countL(v)) right positions holding v are reported
\* (None, j).
ScalarCounting ==
    (Terminal /\ ListCall /\ AllScalars(a) /\ AllScalars(b)) =>
        /\ pc = "done"
        /\ \A x \in ScalarValues :
            /\ Cardinality({i \in range(len(a)) :
                    At(a, i) = x /\ <<IdxSeg(i, None)>> \in OutPaths})
                = Max(0, Count(a, x) - Count(b, x))
            /\ Cardinality({j \in range(len(b)) :
                    At(b, j) = x /\ <<IdxSeg(None, j)>> \in OutPaths})
                = Max(0, Count(b, x) - Count(a, x))

\* the keys dict_diff compares as leaves: not a dict on both sides and not a
\* list on both sides
LeafModeKeys ==
    {k \in DOMAIN a.items \cup DOMAIN b.items :
        /\ ~(IsDict(get(a, k)) /\ IsDict(get(b, k)))
        /\ ~(IsList(get(a, k)) /\ IsList(get(b, k)))}

\* C3: leaf rule with absent-equals-null.  For every leaf-mode key k of two
\* dicts, dict_diff's result contains the path [k] exactly when the two
\* values differ, a missing key counting as None.
LeafRule ==
    (Terminal /\ DictCall) =>
        \A k \in LeafModeKeys :
            (<<KeySeg(k)>> \in OutPaths) <=> (get(a, k) # get(b, k))

\* C4: symmetry of detection.  diff(a, b) returns the empty list if and only
\* if diff(b, a) returns the empty list.
Symmetry ==
    Terminal =>
        (ReturnedEmpty <=>
            LET back == Diff(b, a, seed) IN ~back.raised /\ back.paths = <<>>)

\* a call where both directions are clean although the documents differ
SymmetryWitness ==
    /\ ReturnedEmpty
    /\ a # b
    /\ ListCall
    /\ len(a) = 3
    /\ Len(labels.to_recurse) = 3
    /\ \E e \in {labels.matched[n] : n \in 1 .. Len(labels.matched)} : e[2] # e[3]

RowMajorBefore(e, f) == e[2] < f[2] \/ (e[2] = f[2] /\ e[3] < f[3])

\* C5: the ranking is a stable descending sort.  The ranked list is a
\* permutation of the row-major list of the matrix, non-increasing in score,
\* and entries of equal score keep their row-major order.
StableSort ==
    (pc \in {"ranked", "labelled", "done"} /\ ListCall) =>
        LET flat == Flatten(similarity_matrix, 0) IN
        /\ Len(similarity_list) = Len(flat)
        /\ {similarity_list[n] : n \in 1 .. Len(similarity_list)}
            = {flat[n] : n \in 1 .. Len(flat)}
        /\ \A p, q \in 1 .. Len(similarity_list) :
            p < q =>
                /\ similarity_list[p][1] >= similarity_list[q][1]
                /\ similarity_list[p][1] = similarity_list[q][1]
                    => RowMajorBefore(similarity_list[p], similarity_list[q])

\* the score the scorer is specified to give a pair of elements
ReferenceScore(x, y) ==
    IF IsDict(x) /\ IsDict(y)
    THEN Cardinality({k \in DOMAIN x.items \cap DOMAIN y.items :
            \/ ~IsComplex(x.items[k]) /\ ~IsComplex(y.items[k]) /\ x.items[k] = y.items[k]
            \/ IsComplex(x.items[k]) /\ IsComplex(y.items[k])})
    ELSE IF IsList(x) /\ IsList(y) THEN (IF len(x) = len(y) THEN 1 ELSE 0)
    ELSE IF ~IsComplex(x) /\ ~IsComplex(y) THEN (IF x = y THEN 1 ELSE 0)
    ELSE 0

\* C6: for lists of lengths n and m, equal or not, the scorer returns
\* without error a matrix of n rows of m entries whose entry [i][j] is the
\* reference score of l1[i] and l2[j].
ScorerReference ==
    (ListCall /\ pc # "start") =>
        similarity_matrix =
            [i \in 1 .. len(a) |-> [j \in 1 .. len(b) |->
                ReferenceScore(At(a, i - 1), At(b, j - 1))]]

OneSided(e) == e.seg = "idx" /\ ((e.l = None) # (e.r = None))
BothPresent(e) == e.seg = "idx" /\ e.l # None /\ e.r # None

WellFormed(path) ==
    /\ Len(path) > 0
    /\ path[Len(path)].seg = "key" \/ OneSided(path[Len(path)])
    /\ \A n \in 1 .. Len(path) - 1 : path[n].seg = "idx" => BothPresent(path[n])

\* C7: every returned path is non-empty, ends in a dict key or a one-sided
\* index pair, and every index pair before the end has both indices.
WellFormedPaths == Terminal => \A path \in OutPaths : WellFormed(path)

\* a result holding a path that passes through a matched index pair and a key
\* to a one-sided pair, and a path that ends in a key below a matched pair
WellFormedPathsWitness ==
    /\ pc = "done"
    /\ \E path \in OutPaths :
        Len(path) = 3 /\ BothPresent(path[1]) /\ path[2].seg = "key" /\ OneSided(path[3])
    /\ \E path \in OutPaths :
        Len(path) = 2 /\ BothPresent(path[1]) /\ path[2].seg = "key"

\* C8: determinism.  A later run on the same documents gives the identical
\* outcome: the same paths in the same order.
Deterministic == (prev.ran /\ Terminal) => out = prev.out

MatchedEntries == {labels.matched[n] : n \in 1 .. Len(labels.matched)}

\* C9: when labelling ends, every left index of l1 is either matched with
\* exactly one right index or reported once as (i, None), never both and
\* never neither, symmetrically for the right indices, and every reported
\* index is a position of its list.
TerminalStates ==
    (pc = "labelled" /\ ListCall) =>
        /\ \A i \in range(len(a)) :
            /\ (i \in labels.seen_l1_indices) # (<<i, None>> \in labels.mismatch_set)
            /\ i \in labels.seen_l1_indices
                => Cardinality({e \in MatchedEntries : e[2] = i}) = 1
        /\ \A j \in range(len(b)) :
            /\ (j \in labels.seen_l2_indices) # (<<None, j>> \in labels.mismatch_set)
            /\ j \in labels.seen_l2_indices
                => Cardinality({e \in MatchedEntries : e[3] = j}) = 1
        /\ \A p \in labels.mismatch_set :
            /\ p[1] # None => p[1] \in range(len(a))
            /\ p[2] # None => p[2] \in range(len(b))

SameShape(x, y) ==
    \/ IsDict(x) /\ IsDict(y)
    \/ IsList(x) /\ IsList(y)
    \/ ~IsComplex(x) /\ ~IsComplex(y)

\* C10: every matched pair has a positive score and elements of the same
\* shape, every queued pair is two dicts or two lists, and the 'index types
\* do not match' branch never runs.
MatchedSameShape ==
    ListCall =>
        /\ \A e \in MatchedEntries :
            /\ e[1] > 0
            /\ e[2] \in range(len(a)) /\ e[3] \in range(len(b))
            /\ SameShape(At(a, e[2]), At(b, e[3]))
        /\ \A n \in 1 .. Len(labels.to_recurse) :
            LET e1 == At(a, labels.to_recurse[n][1])
                e2 == At(b, labels.to_recurse[n][2])
            IN  (IsDict(e1) /\ IsDict(e2)) \/ (IsList(e1) /\ IsList(e2))
        /\ ~labels.raised
        /\ ~out.printed

\* a finished call that matched a scalar pair and queued a dict pair and a
\* list pair
MatchedSameShapeWitness ==
    /\ pc = "done"
    /\ ListCall
    /\ \E e \in MatchedEntries : ~IsComplex(At(a, e[2]))
    /\ \E n \in 1 .. Len(labels.to_recurse) : IsDict(At(a, labels.to_recurse[n][1]))
    /\ \E n \in 1 .. Len(labels.to_recurse) : IsList(At(a, labels.to_recurse[n][1]))

====
